---- MODULE Spec2Model ----
(***************************************************************************)
(* Resource-policy dependency reports of ICSRSPolicy                       *)
(* (src/src/iconfig/rspolicy.py).                                          *)
(*                                                                         *)
(* An instance is built from an XML configuration tree and a set of idle   *)
(* user roles.  The load methods (web_policies .. vpntunnel_policies, run  *)
(* in that order by rs_policies) fill one dict per report group; each      *)
(* write_* method resolves the idle roles against its group's dict         *)
(* (_policy_parser), pads the result (_policy_padding) and writes the CSV  *)
(* rows.                                                                   *)
(*                                                                         *)
(* Python dicts keep insertion order and the code depends on it            *)
(* (_first_key, _second_key, the order of the result lists), so a dict is  *)
(* a sequence of <<key, value>> pairs.  Python indexes from 0, sequences   *)
(* here from 1: item-index i of the code is position i + 1.                *)
(***************************************************************************)
EXTENDS Integers, Sequences, FiniteSets, TLC

VARIABLES
    xml,                 \* the parsed configuration tree (ICSXMLParser)
    idle_user_roles,     \* self.idle_user_roles, a set
    role_order,          \* the order in which iterating idle_user_roles yields it
    web_policies_,       \* self.web_policies_
    file_policies_,      \* self.file_policies_
    sam_policies_,       \* self.sam_policies_
    termserv_policies_,  \* self.termserv_policies_
    html5_policies_,     \* self.html5_policies_
    vpntunnel_policies_, \* self.vpntunnel_policies_
    policy_length,       \* self.policy_length
    pc,                  \* "new" after __init__, "loaded" once rs_policies has run
    last_write,          \* the group of the last write_* call, "none" before any
    stale,               \* whether that call found self.policy_length non-empty
    resource_policy_arg, \* the resource_policy that call passed to _policy_parser
    raised,              \* the exception the last write_* call ended with, or "none"
    rs_policy,           \* the local rs_policy of the last write_* call
    report               \* the file the last write_* call produced

vars == <<xml, idle_user_roles, role_order, web_policies_, file_policies_,
          sam_policies_, termserv_policies_, html5_policies_,
          vpntunnel_policies_, policy_length, pc, last_write, stale,
          resource_policy_arg, raised, rs_policy, report>>

inputs == <<xml, idle_user_roles, role_order>>

loaded == <<web_policies_, file_policies_, sam_policies_, termserv_policies_,
            html5_policies_, vpntunnel_policies_>>

outcome == <<policy_length, last_write, stale, resource_policy_arg, raised,
             rs_policy, report>>

----------------------------------------------------------------------------
(* Bounds of the explored inputs. *)

\* The largest number of <policy> elements in one configuration tree.
MaxPolicies == 2

\* Role names and policy names of the explored trees.
Roles == {"r1", "r2"}
PolicyNames == {"p1", "p2"}

\* Every string that is compared by sorted(), in ascending order ("" first).
Lexicon == <<"", "p1", "p2", "p3", "r1", "r2", "r3">>

----------------------------------------------------------------------------
(* The report groups and their policy types (the xpath constants). *)

Groups == <<"web", "file", "sam", "termserv", "html5", "vpntunnel">>

WebParentTypes ==
    <<"WEB_ACL", "WEB_SSO_BASIC_NTLM", "WEB_SSO_POST", "WEB_SSO_HEADERS",
      "WEB_CACHING_ACL", "WEB_JAVA_ACL", "WEB_CODESIGNING_ACL",
      "WEB_SELECTIVE_REWRITE", "WEB_COMPRESS_ACL", "WEB_LAUNCHJSAM",
      "WEB_CLIENTAUTH">>

WebTypes ==
    <<"WEB_SAML_ACCESS", "WEB_SAML_SSO", "WEB_CUSTOM_HEADER",
      "WEB_CROSS_DOMAIN_ACL", "WEB_PROXY_POLICY", "WEB_PROTOCOL",
      "WEB_ENCODING", "WEB_SAML_EXTERNAL">>

FileTypes == <<"FILE_WIN_ACL", "FILE_WIN_COMPRESS_ACL", "FILE_WIN_SSO_ACL">>

VpnTunnelTypes == <<"NC_ACL", "NC_CONNPROF", "NC_STUNNEL", "NC_NODE_CONNPROF">>

\* The policy types extracted with resource_policy_w_parent.
ParentScoped ==
    {WebParentTypes[i] : i \in 1..Len(WebParentTypes)}
      \cup {FileTypes[i] : i \in 1..Len(FileTypes)}
      \cup {"SAM_ACL", "TERM_SERV_ACL", "HTML5_ACL"}

\* The policy types a write_* method reads into the columns after "role",
\* in column order.
Columns(group) ==
    CASE group = "web" -> WebParentTypes \o WebTypes
      [] group = "file" -> <<"FILE_WIN_ACL", "FILE_WIN_SSO_ACL", "FILE_WIN_COMPRESS_ACL">>
      [] group = "sam" -> <<"SAM_ACL">>
      [] group = "termserv" -> <<"TERM_SERV_ACL">>
      [] group = "html5" -> <<"HTML5_ACL">>
      [] group = "vpntunnel" ->
            <<"NC_ACL", "NC_CONNPROF", "NC_STUNNEL", "NC_BWIDTH", "NC_NODE_CONNPROF">>

----------------------------------------------------------------------------
(* Python values. *)

Range(s) == {s[i] : i \in 1..Len(s)}

Rank(str) == CHOOSE i \in 1..Len(Lexicon) : Lexicon[i] = str

\* a < b for strings
StrLess(a, b) == Rank(a) < Rank(b)

RECURSIVE Insert(_, _)
Insert(x, s) ==
    IF s = <<>> THEN <<x>>
    ELSE IF StrLess(x, Head(s)) THEN <<x>> \o s
    ELSE <<Head(s)>> \o Insert(x, Tail(s))

\* sorted(s) for a list of strings
RECURSIVE sorted(_)
sorted(s) == IF s = <<>> THEN <<>> ELSE Insert(Head(s), sorted(Tail(s)))

\* max(s) for a non-empty list of integers
Max(s) == CHOOSE m \in Range(s) : \A x \in Range(s) : x <= m

\* ["" for i in range(n)]; range(n) is empty for n <= 0
Blanks(n) == [i \in 1..(IF n > 0 THEN n ELSE 0) |-> ""]

\* list(...): the items of a comprehension, as a list
list(f) == f \o <<>>

\* A dict is its keys in insertion order and the value under each key.
Dict0 == [keys |-> <<>>, val |-> <<>>]

\* {k: ... for k in ...}: the values of a comprehension, by key
dict(f) == f @@ <<>>

\* k in d, d[k], d[k] = v, list(d)
HasKey(d, k) == k \in DOMAIN d.val
Get(d, k) == d.val[k]
Put(d, k, v) ==
    IF HasKey(d, k)
    THEN [d EXCEPT !.val[k] = v]
    ELSE [keys |-> Append(d.keys, k), val |-> (k :> v) @@ d.val]
Keys(d) == d.keys

\* defaultdict(list): reading d[k] inserts an empty list under a missing k
Touch(d, k) == IF HasKey(d, k) THEN d ELSE Put(d, k, <<>>)

\* The two collections a *_policies_ field holds: the dict of __init__ and of
\* a loaded group, and the set() of a group whose subtree is missing.
\* Iterating either yields the keys of items.
EmptyDict == [kind |-> "dict", items |-> Dict0]
EmptySet == [kind |-> "set", items |-> Dict0]

----------------------------------------------------------------------------
(* The configuration tree.  xml.roots holds the groups whose root subtree  *)
(* is present; xml.policies holds the <policy> elements in document order, *)
(* each under the path of one policy type, with its name, the values of    *)
(* its role elements, and its apply and parent-type elements.              *)

check_tree(group) == group \in xml.roots

\* _handle_iterfind(rspolicy_path)
_handle_iterfind(rspolicy_path) ==
    SelectSeq(xml.policies, LAMBDA policy : policy.path = rspolicy_path)

\* sorted(self._element_findall_values(policy, role_value))
RECURSIVE SortedValues(_)
SortedValues(S) ==
    IF S = {} THEN <<>>
    ELSE LET x == CHOOSE y \in S : \A z \in S : ~StrLess(z, y)
         IN  <<x>> \o SortedValues(S \ {x})

\* The dict comprehension of resource_policy_w_parent and resource_policy over
\* the elements that pass its filter: a repeated name keeps its first
\* position and takes its last value.
RECURSIVE Comprehension(_, _)
Comprehension(elements, acc) ==
    IF elements = <<>> THEN acc
    ELSE Comprehension(Tail(elements),
                       Put(acc, Head(elements).name, SortedValues(Head(elements).roles)))

\* Mutant: the parent-type test is left out.
ParentFilter_apply_only(policy) == policy.apply # "all"

ParentFilter(policy) == policy.parent_type = "none" /\ policy.apply # "all"

resource_policy_w_parent(rspolicy_path) ==
    Comprehension(SelectSeq(_handle_iterfind(rspolicy_path), ParentFilter), Dict0)

ApplyFilter(policy) == policy.apply # "all"

resource_policy(rspolicy_path) ==
    Comprehension(SelectSeq(_handle_iterfind(rspolicy_path), ApplyFilter), Dict0)

\* for elem in [...]: d[elem] = self.resource_policy_w_parent(elem)
RECURSIVE LoadParent(_, _)
LoadParent(d, elems) ==
    IF elems = <<>> THEN d
    ELSE LoadParent(Put(d, Head(elems), resource_policy_w_parent(Head(elems))), Tail(elems))

\* for elem in [...]: d[elem] = self.resource_policy(elem)
RECURSIVE LoadPlain(_, _)
LoadPlain(d, elems) ==
    IF elems = <<>> THEN d
    ELSE LoadPlain(Put(d, Head(elems), resource_policy(Head(elems))), Tail(elems))

\* The loop of vpntunnel_policies: NC_BWIDTH is assigned inside it.
RECURSIVE LoadVpnTunnel(_, _)
LoadVpnTunnel(d, elems) ==
    IF elems = <<>> THEN d
    ELSE LoadVpnTunnel(
            Put(Put(d, Head(elems), resource_policy(Head(elems))),
                "NC_BWIDTH", resource_policy("NC_BWIDTH")),
            Tail(elems))

----------------------------------------------------------------------------
(* _policy_parser: the dependency resolver. *)

\* Lines 197-207: the loop over the policies of one policy type.  pmap is
\* group_policies[policy_type], a dict name -> roles, and left the names
\* the loop has yet to visit.
RECURSIVE ParsePolicies(_, _, _, _, _)
ParsePolicies(result_, role, policy_type, pmap, left) ==
    IF left = <<>> THEN result_
    ELSE LET policy == Head(left)
             touched == Touch(result_, policy_type)
         IN  ParsePolicies(
                IF role \in Range(Get(pmap, policy))
                THEN Put(touched, policy_type, Append(Get(touched, policy_type), policy))
                ELSE touched,
                role, policy_type, pmap, Tail(left))

\* Mutant: result_ is a plain dict read without inserting, so a policy type
\* with no matching policy leaves no entry.
ParsePolicyType_no_insert(result_, role, policy_type, pmap) ==
    LET looped == ParsePolicies(result_, role, policy_type, pmap, Keys(pmap))
    IN  IF HasKey(looped, policy_type) /\ Get(looped, policy_type) # <<>>
        THEN [result_ |-> looped, length |-> Len(Get(looped, policy_type))]
        ELSE [result_ |-> result_, length |-> 0]

\* Lines 189-208: one pass of the loop over the policy types.  Yields the
\* role's defaultdict and the length appended to self.policy_length.
ParsePolicyType(result_, role, policy_type, pmap) ==
    LET emptied == IF Len(Keys(pmap)) = 0 THEN Touch(result_, policy_type) ELSE result_
        looped == ParsePolicies(emptied, role, policy_type, pmap, Keys(pmap))
        counted == Touch(looped, policy_type)
    IN  [result_ |-> counted, length |-> Len(Get(counted, policy_type))]

\* Lines 208-210: the defaultdict of a role once its passes are done.  The
\* policy types are the keys of a dict, so each pass adds the entry of
\* another key to result_ and the entries are listed in dict order.
RoleResult(types, passes) ==
    LET PassOf(type) == passes[CHOOSE i \in 1..Len(types) : types[i] = type]
        kept == SelectSeq(types, LAMBDA type : Keys(PassOf(type).result_) # <<>>)
    IN  [result_ |-> [keys |-> kept,
                      val |-> dict([type \in Range(kept) |->
                                     Get(PassOf(type).result_, type)])],
         lengths |-> list([i \in 1..Len(types) |-> passes[i].length])]

\* Lines 189-208: the passes of the loop over the policy types.
ParseTypes(role, group_policies, types) ==
    RoleResult(types,
               list([i \in 1..Len(types) |->
                       ParsePolicyType(Dict0, role, types[i],
                                       Get(group_policies.items, types[i]))]))

\* Lines 188-210: one role.
ParseRole(role, group_policies) ==
    ParseTypes(role, group_policies, Keys(group_policies.items))

\* Line 210 and self.policy_length as they reach line 212: one length is
\* appended per (role, policy type), role by role.
Collect(length, ntypes, each) ==
    [result_roles |->
        [keys |-> role_order,
         val |-> dict([role \in Range(role_order) |->
                        each[CHOOSE r \in 1..Len(role_order) : role_order[r] = role].result_])],
     policy_length |->
        length \o [k \in 1..(Len(role_order) * ntypes) |->
                      each[((k - 1) \div ntypes) + 1].lengths[((k - 1) % ntypes) + 1]]]

\* Lines 185-210: the loop over the idle roles.
Resolve(group_policies, length) ==
    Collect(length, Len(Keys(group_policies.items)),
            list([r \in 1..Len(role_order) |-> ParseRole(role_order[r], group_policies)]))

----------------------------------------------------------------------------
(* _policy_padding: the padder. *)

\* Mutant: the list is padded but not sorted.
PadList_unsorted(policies, max_length) ==
    policies \o Blanks(max_length - Len(policies))

\* Mutant: the list is sorted but not padded.
PadList_unpadded(policies, max_length) == sorted(policies)

\* Lines 225-232: one (role, policy type) list.
PadList(policies, max_length) ==
    IF Len(policies) # max_length
    THEN sorted(policies) \o Blanks(max_length - Len(policies))
    ELSE sorted(policies)

\* Lines 224-232: the policy types of one role.
PadRole(rspolicies, max_length) ==
    [keys |-> Keys(rspolicies),
     val |-> dict([policy \in DOMAIN rspolicies.val |->
                    PadList(Get(rspolicies, policy), max_length)])]

\* Lines 224-232: the roles.
PadRoles(roles_rspolicies, max_length) ==
    [keys |-> Keys(roles_rspolicies),
     val |-> dict([role \in DOMAIN roles_rspolicies.val |->
                    PadRole(Get(roles_rspolicies, role), max_length)])]

\* Mutant: the zero maximum is not told apart from the empty list.
_policy_padding_zero_raises(parsed) ==
    IF parsed.policy_length = <<>> \/ Max(parsed.policy_length) = 0
    THEN [raised |-> "ValueError", value |-> Dict0, policy_length |-> parsed.policy_length]
    ELSE [raised |-> "none",
          value |-> PadRoles(parsed.result_roles, Max(parsed.policy_length)),
          policy_length |-> parsed.policy_length]

\* _policy_padding on the result_roles handed to it and self.policy_length:
\* what it returns or raises, and self.policy_length, which it leaves alone.
\* max() of an empty list raises ValueError.
_policy_padding(parsed) ==
    IF parsed.policy_length = <<>>
    THEN [raised |-> "ValueError", value |-> Dict0, policy_length |-> parsed.policy_length]
    ELSE IF Max(parsed.policy_length) # 0
    THEN [raised |-> "none",
          value |-> PadRoles(parsed.result_roles, Max(parsed.policy_length)),
          policy_length |-> parsed.policy_length]
    ELSE [raised |-> "none", value |-> parsed.result_roles,
          policy_length |-> parsed.policy_length]

\* return self._policy_padding(result_roles)
_policy_parser(group_policies, length) == _policy_padding(Resolve(group_policies, length))

----------------------------------------------------------------------------
(* The rows of a report. *)

_first_key(rs) == Keys(rs)[1]

_second_key(rs) == Keys(Get(rs, _first_key(rs)))[1]

\* Mutant: the "(-1)" of the NOTE at line 252 is applied to the length.
_first_policy_length_less_one(rs) ==
    Len(Get(Get(rs, _first_key(rs)), _second_key(rs))) - 1

_first_policy_length(rs) == Len(Get(Get(rs, _first_key(rs)), _second_key(rs)))

\* policy[TYPE][item] of a defaultdict: a missing TYPE reads as an empty list,
\* and an index past the end raises IndexError.
CellFails(policy, type, item) ==
    ~HasKey(policy, type) \/ item > Len(Get(policy, type))

\* roles = [role, ] + [" " for i in range(n - 1)]; roles[item]
RoleCell(role, item) == IF item = 1 THEN role ELSE " "

\* The dict handed to writerow, as the cells in column order.
Row(role, policy, columns, item) ==
    <<RoleCell(role, item)>> \o [c \in 1..Len(columns) |-> Get(policy, columns[c])[item]]

\* The loop "for role in rs_policy: ... for item in range(n): writerow(...)":
\* the rows written, and the exception that ended the loop if one did.
WriteRows(rs, columns) ==
    IF Keys(rs) = <<>> THEN [raised |-> "none", rows |-> <<>>]
    ELSE IF Keys(Get(rs, _first_key(rs))) = <<>> THEN [raised |-> "IndexError", rows |-> <<>>]
    ELSE LET n == _first_policy_length(rs)
             total == Len(Keys(rs)) * n
             RoleAt(k) == Keys(rs)[((k - 1) \div n) + 1]
             ItemAt(k) == ((k - 1) % n) + 1
             Bad(k) == \E c \in 1..Len(columns) :
                          CellFails(Get(rs, RoleAt(k)), columns[c], ItemAt(k))
             good == IF \E k \in 1..total : Bad(k)
                     THEN (CHOOSE k \in 1..total : Bad(k) /\ \A j \in 1..(k - 1) : ~Bad(j)) - 1
                     ELSE total
         IN  [raised |-> IF good < total THEN "IndexError" ELSE "none",
              rows |-> list([k \in 1..good |->
                              Row(RoleAt(k), Get(rs, RoleAt(k)), columns, ItemAt(k))])]

NoFile == [header |-> FALSE, rows |-> <<>>]

\* Mutant: the accumulator is not re-initialized.
ResetLength_kept(length) == length

\* self.policy_length = []
ResetLength(length) == <<>>

\* Lines 262-292 after _policy_parser is done: the fields and the file the
\* call leaves.  open() comes after _policy_parser, so a call that raises
\* there writes no file.
WriteParsed(group, group_policies, parsed) ==
    LET written == WriteRows(parsed.value, Columns(group))
    IN  /\ policy_length' = parsed.policy_length
        /\ last_write' = group
        /\ stale' = (policy_length # <<>>)
        /\ resource_policy_arg' = group_policies
        /\ IF parsed.raised # "none"
           THEN /\ raised' = parsed.raised
                /\ rs_policy' = Dict0
                /\ report' = NoFile
           ELSE /\ raised' = written.raised
                /\ rs_policy' = parsed.value
                /\ report' = [header |-> TRUE, rows |-> written.rows]

\* Mutant: the resolver pops the roles off self.idle_user_roles.
Write_pops_roles(group, group_policies) ==
    /\ WriteParsed(group, group_policies,
                   _policy_parser(group_policies, ResetLength(policy_length)))
    /\ idle_user_roles' = {}
    /\ role_order' = <<>>
    /\ UNCHANGED <<xml, loaded, pc>>

\* The body shared by the six write_* methods, which differ in the field they
\* read and in their columns.
Write(group, group_policies) ==
    /\ WriteParsed(group, group_policies,
                   _policy_parser(group_policies, ResetLength(policy_length)))
    /\ UNCHANGED <<inputs, loaded, pc>>

write_web_policies == Write("web", web_policies_)
write_file_policies == Write("file", file_policies_)
write_sam_policies == Write("sam", sam_policies_)
write_termsrv_policies == Write("termserv", termserv_policies_)
write_html5_policies == Write("html5", html5_policies_)
write_vpntunnel_policies == Write("vpntunnel", vpntunnel_policies_)

----------------------------------------------------------------------------
(* The load methods: the value each leaves in its field.  (They also set   *)
(* self.log_object and log a line, which nothing else reads.)              *)

web_policies ==
    IF check_tree("web")
    THEN [kind |-> "dict",
          items |-> LoadPlain(LoadParent(web_policies_.items, WebParentTypes), WebTypes)]
    ELSE EmptySet

file_policies ==
    IF check_tree("file")
    THEN [kind |-> "dict", items |-> LoadParent(file_policies_.items, FileTypes)]
    ELSE EmptySet

sam_policies ==
    IF check_tree("sam")
    THEN [kind |-> "dict", items |-> LoadParent(sam_policies_.items, <<"SAM_ACL">>)]
    ELSE EmptySet

termserv_policies ==
    IF check_tree("termserv")
    THEN [kind |-> "dict", items |-> LoadParent(termserv_policies_.items, <<"TERM_SERV_ACL">>)]
    ELSE EmptySet

html5_policies ==
    IF check_tree("html5")
    THEN [kind |-> "dict", items |-> LoadParent(html5_policies_.items, <<"HTML5_ACL">>)]
    ELSE EmptySet

vpntunnel_policies ==
    IF check_tree("vpntunnel")
    THEN [kind |-> "dict", items |-> LoadVpnTunnel(vpntunnel_policies_.items, VpnTunnelTypes)]
    ELSE EmptySet

\* rs_policies: the pipeline of the six load methods.  It runs once, before
\* the reports are written.
rs_policies ==
    /\ pc = "new"
    /\ pc' = "loaded"
    /\ web_policies_' = web_policies
    /\ file_policies_' = file_policies
    /\ sam_policies_' = sam_policies
    /\ termserv_policies_' = termserv_policies
    /\ html5_policies_' = html5_policies
    /\ vpntunnel_policies_' = vpntunnel_policies
    /\ UNCHANGED <<inputs, outcome>>

----------------------------------------------------------------------------
(* The explored inputs. *)

\* The explored trees hold policies of one policy type extracted with
\* resource_policy_w_parent and of one extracted with resource_policy; every
\* other policy type of a present group is loaded as an empty dict.
PopulatedTypes == {"WEB_ACL", "WEB_SAML_ACCESS"}

\* The explored trees have every root subtree but that of HTML5.
PresentRoots == Range(Groups) \ {"html5"}

PolicyLists(elements) == UNION {[1..n -> elements] : n \in 0..MaxPolicies}

\* No two policies of one policy type share a name.
UniqueNames(policies) ==
    \A i, j \in 1..Len(policies) :
        (policies[i].path = policies[j].path /\ policies[i].name = policies[j].name)
            => i = j

\* Trees whose policies differ in their roles and all pass the filters.
RoleTrees ==
    {[roots |-> PresentRoots, policies |-> policies] :
        policies \in {l \in PolicyLists([path : PopulatedTypes, name : PolicyNames,
                                         roles : {{"r1"}, {"r1", "r2"}},
                                         apply : {"selected"}, parent_type : {"none"}]) :
                        UniqueNames(l)}}

\* Trees whose policies differ in apply and parent-type.
FilterTrees ==
    {[roots |-> PresentRoots, policies |-> policies] :
        policies \in {l \in PolicyLists([path : PopulatedTypes, name : PolicyNames,
                                         roles : {{"r1"}},
                                         apply : {"selected", "all"},
                                         parent_type : {"none", "bookmark"}]) :
                        UniqueNames(l)}}

\* The orders in which iterating the set S can yield its members.
Orders(S) ==
    {s \in [1..Cardinality(S) -> S] : \A i, j \in 1..Cardinality(S) : s[i] = s[j] => i = j}

\* The state __init__ leaves.
Constructed ==
    /\ role_order \in Orders(idle_user_roles)
    /\ web_policies_ = EmptyDict
    /\ file_policies_ = EmptyDict
    /\ sam_policies_ = EmptyDict
    /\ termserv_policies_ = EmptyDict
    /\ html5_policies_ = EmptyDict
    /\ vpntunnel_policies_ = EmptyDict
    /\ policy_length = <<>>
    /\ pc = "new"
    /\ last_write = "none"
    /\ stale = FALSE
    /\ resource_policy_arg = EmptyDict
    /\ raised = "none"
    /\ rs_policy = Dict0
    /\ report = NoFile

Init ==
    /\ xml \in RoleTrees
    /\ idle_user_roles \in SUBSET Roles
    /\ Constructed

InitFilter ==
    /\ xml \in FilterTrees
    /\ idle_user_roles = Roles
    /\ role_order = SortedValues(Roles)
    /\ Constructed

Next ==
    \/ rs_policies
    \/ write_web_policies
    \/ write_file_policies
    \/ write_sam_policies
    \/ write_termsrv_policies
    \/ write_html5_policies
    \/ write_vpntunnel_policies

Spec == Init /\ [][Next]_vars

\* The web report on the trees that exercise the extraction filters.
NextFilter ==
    \/ rs_policies
    \/ write_web_policies

SpecFilter == InitFilter /\ [][NextFilter]_vars

----------------------------------------------------------------------------
(* What the last write_* call read and what it should have found. *)

\* The _policy_parser call of the last write_* call returned.
Returned == last_write # "none" /\ raised # "ValueError"

\* The policy types of the group the call read, in dict order.
Types == Keys(resource_policy_arg.items)

\* The policies of a policy type that name the role.
Matches(role, type) ==
    LET pmap == Get(resource_policy_arg.items, type)
    IN  {policy \in DOMAIN pmap.val : role \in Range(Get(pmap, policy))}

\* The largest number of matching policies of any (role, policy type).
MaxLen ==
    LET counts == {Cardinality(Matches(role, type)) :
                      role \in idle_user_roles, type \in Range(Types)}
    IN  CHOOSE m \in counts : \A c \in counts : c <= m

\* The call had idle roles and policy types to resolve.
Resolved == Returned /\ idle_user_roles # {} /\ Types # <<>>

\* rs_policy[role][type]
ListOf(role, type) == Get(Get(rs_policy, role), type)

\* rs_policy has a list for every idle role and every policy type.
Complete(rs) ==
    \A role \in idle_user_roles :
        HasKey(rs, role) /\ \A type \in Range(Types) : HasKey(Get(rs, role), type)

----------------------------------------------------------------------------
(* The claims. *)

\* C1: after _policy_parser returns for a group with at least one policy
\* type and a non-empty idle-role set, every (role, policy type) list has the
\* length max_len, the largest number of matching policies of any (role,
\* policy type) of that call.
C1_PaddingRectangular ==
    Resolved =>
        /\ Complete(rs_policy)
        /\ \A role \in idle_user_roles : \A type \in Range(Types) :
              Len(ListOf(role, type)) = MaxLen

\* A web report in which one list holds two policies and another one.
C1_Witness ==
    /\ Resolved
    /\ last_write = "web"
    /\ MaxLen = 2
    /\ \E role \in idle_user_roles : \E type \in Range(Types) :
          Cardinality(Matches(role, type)) = 1

\* C2: with policy names unique within a policy type, a name appears in the
\* list of (role, policy type), exactly once and as the only kind of
\* non-sentinel entry, iff the tree holds a policy of that type and name
\* whose roles include the role, whose apply is not "all" and, for the types
\* extracted with resource_policy_w_parent, whose parent-type is "none".
C2_MembershipCorrect ==
    (Resolved /\ UniqueNames(xml.policies)) =>
        /\ Complete(rs_policy)
        /\ \A role \in idle_user_roles : \A type \in Range(Types) :
              LET found == ListOf(role, type)
                  Selected(name) ==
                      \E i \in 1..Len(xml.policies) :
                          LET policy == xml.policies[i]
                          IN  /\ policy.path = type
                              /\ policy.name = name
                              /\ role \in policy.roles
                              /\ policy.apply # "all"
                              /\ type \in ParentScoped => policy.parent_type = "none"
              IN  /\ \A i \in 1..Len(found) : found[i] = "" \/ found[i] \in PolicyNames
                  /\ \A name \in PolicyNames :
                        Cardinality({i \in 1..Len(found) : found[i] = name})
                            = IF Selected(name) THEN 1 ELSE 0

\* A web report that lists a policy, from a tree that also holds a policy
\* with a parent-type under a parent-scoped type, one with a parent-type
\* under a plain type, and one that applies to all roles.
C2_Witness ==
    /\ Resolved
    /\ last_write = "web"
    /\ UniqueNames(xml.policies)
    /\ \E role \in idle_user_roles : \E type \in Range(Types) :
          \E i \in 1..Len(ListOf(role, type)) : ListOf(role, type)[i] # ""
    /\ \E i \in 1..Len(xml.policies) :
          xml.policies[i].path = "WEB_ACL" /\ xml.policies[i].parent_type # "none"
    /\ \E i \in 1..Len(xml.policies) :
          /\ xml.policies[i].path = "WEB_SAML_ACCESS"
          /\ xml.policies[i].parent_type # "none"
          /\ xml.policies[i].apply # "all"
    /\ \E i \in 1..Len(xml.policies) : xml.policies[i].apply = "all"

\* C3: with an empty idle-role set a write_* call of a loaded group ends
\* without error, having written the header and no data row.
C3_EmptyIdleRoleSet ==
    (last_write # "none" /\ idle_user_roles = {} /\ Types # <<>>) =>
        /\ raised = "none"
        /\ report = [header |-> TRUE, rows |-> <<>>]

\* C4: a group whose root subtree is absent is loaded as an empty collection,
\* and its write_* call with a non-empty idle-role set ends without error.
C4_MissingSubtree ==
    (pc = "loaded" /\ ~check_tree("html5")) =>
        /\ html5_policies_ = EmptySet
        /\ (last_write = "html5" /\ resource_policy_arg = EmptySet /\ idle_user_roles # {})
              => raised = "none"

\* C5: when no idle role is named by any policy of a group with at least
\* one policy type (max_len = 0), _policy_parser returns the resolved result
\* unchanged, every list empty, and the write_* call ends without error,
\* having written the header and no data row.
C5_ZeroCase ==
    (last_write # "none" /\ idle_user_roles # {} /\ Types # <<>> /\ MaxLen = 0) =>
        /\ raised = "none"
        /\ rs_policy = Resolve(resource_policy_arg, <<>>).result_roles
        /\ Complete(rs_policy)
        /\ \A role \in idle_user_roles : \A type \in Range(Types) :
              ListOf(role, type) = <<>>
        /\ report = [header |-> TRUE, rows |-> <<>>]

\* A web report for an idle role that none of the tree's policies names.
C5_Witness ==
    /\ last_write = "web"
    /\ raised = "none"
    /\ idle_user_roles # {}
    /\ Types # <<>>
    /\ MaxLen = 0
    /\ xml.policies # <<>>
    /\ report.header

\* C6: the resolved result, before padding, has an entry for every idle role
\* and every policy type of the group: the matching policies, so an empty
\* list when the type has no policies or none of them names the role.
C6_HeaderComplete ==
    last_write # "none" =>
        LET resolved == Resolve(resource_policy_arg, <<>>).result_roles
        IN  /\ Complete(resolved)
            /\ \A role \in idle_user_roles : \A type \in Range(Types) :
                  LET found == Get(Get(resolved, role), type)
                  IN  /\ Range(found) = Matches(role, type)
                      /\ Len(found) = Cardinality(Matches(role, type))
                      /\ (Keys(Get(resource_policy_arg.items, type)) = <<>>
                            \/ Matches(role, type) = {}) => found = <<>>

\* C6 as first stated: the entry is also an empty list when every policy of
\* the type names the role.
C6_EmptyWhenInEveryPolicy ==
    last_write # "none" =>
        LET resolved == Resolve(resource_policy_arg, <<>>).result_roles
        IN  /\ Complete(resolved)
            /\ \A role \in idle_user_roles : \A type \in Range(Types) :
                  LET found == Get(Get(resolved, role), type)
                      pmap == Get(resource_policy_arg.items, type)
                  IN  (\/ Keys(pmap) = <<>>
                       \/ Matches(role, type) = {}
                       \/ Matches(role, type) = DOMAIN pmap.val) => found = <<>>

\* A report of a group with a policy type without policies, and a policy
\* type whose policies name another role but not this one.
C6_Witness ==
    /\ Resolved
    /\ \E role \in idle_user_roles : \E type \in Range(Types) :
          /\ Keys(Get(resource_policy_arg.items, type)) # <<>>
          /\ Matches(role, type) = {}
          /\ HasKey(Get(rs_policy, role), type)
    /\ \E type \in Range(Types) : Keys(Get(resource_policy_arg.items, type)) = <<>>

\* C7: when max_len > 0, every list is its matching policies in ascending
\* order followed by max_len minus their number of empty strings, and by
\* nothing else.
C7_PaddedListShape ==
    (Resolved /\ MaxLen > 0) =>
        /\ Complete(rs_policy)
        /\ \A role \in idle_user_roles : \A type \in Range(Types) :
              LET found == ListOf(role, type)
                  real == Cardinality(Matches(role, type))
              IN  /\ Len(found) = real + (MaxLen - real)
                  /\ {found[i] : i \in 1..real} = Matches(role, type)
                  /\ \A i \in 1..(real - 1) : StrLess(found[i], found[i + 1])
                  /\ \A i \in (real + 1)..Len(found) : found[i] = ""

\* A report with a list of two policies that the tree holds in descending
\* order, and a list of one policy and one sentinel.
C7_Witness ==
    /\ Resolved
    /\ \E role \in idle_user_roles : \E type \in Range(Types) :
          /\ ListOf(role, type) = <<"p1", "p2">>
          /\ Keys(Get(resource_policy_arg.items, type)) = <<"p2", "p1">>
    /\ \E role \in idle_user_roles : \E type \in Range(Types) :
          ListOf(role, type) = <<"p1", "">> \/ ListOf(role, type) = <<"p2", "">>

\* C8: when max_len > 0 the write_* call ends without error, having written
\* max_len consecutive rows for each idle role; the i-th row of a role holds
\* the role name (i = 1) or " " (i > 1) and, in each policy type's column,
\* rs_policy[role][type][i].
C8_ReportAssembly ==
    (Resolved /\ MaxLen > 0) =>
        /\ raised = "none"
        /\ report.header
        /\ Range(Keys(rs_policy)) = idle_user_roles
        /\ Len(Keys(rs_policy)) = Cardinality(idle_user_roles)
        /\ Len(report.rows) = Cardinality(idle_user_roles) * MaxLen
        /\ \A r \in 1..Len(Keys(rs_policy)) : \A i \in 1..MaxLen :
              LET role == Keys(rs_policy)[r]
                  row == report.rows[(r - 1) * MaxLen + i]
                  columns == Columns(last_write)
              IN  /\ Len(row) = Len(columns) + 1
                  /\ row[1] = IF i = 1 THEN role ELSE " "
                  /\ \A c \in 1..Len(columns) : row[c + 1] = ListOf(role, columns[c])[i]

\* A web report of two rows for each of two idle roles.
C8_Witness ==
    /\ Resolved
    /\ last_write = "web"
    /\ MaxLen = 2
    /\ Cardinality(idle_user_roles) = 2
    /\ Len(report.rows) = 4

\* C9: whatever write_* calls came before, a write_* call leaves in
\* self.policy_length only its own lengths, one per (idle role, policy
\* type), and ends as the same call on a fresh instance would.
C9_StateIsolation ==
    last_write # "none" =>
        LET fresh == _policy_parser(resource_policy_arg, <<>>)
        IN  /\ Len(policy_length) = Cardinality(idle_user_roles) * Len(Types)
            /\ policy_length = fresh.policy_length
            /\ (idle_user_roles # {} /\ Types # <<>>) => Max(policy_length) = MaxLen
            /\ IF fresh.raised # "none"
               THEN raised = fresh.raised /\ rs_policy = Dict0 /\ report = NoFile
               ELSE rs_policy = fresh.value

\* A report without matches written after a call that left lengths behind,
\* on an instance whose web group has matches.
C9_Witness ==
    /\ stale
    /\ Resolved
    /\ last_write = "sam"
    /\ MaxLen = 0
    /\ \E role \in idle_user_roles :
          \E policy \in DOMAIN Get(web_policies_.items, "WEB_ACL").val :
              role \in Range(Get(Get(web_policies_.items, "WEB_ACL"), policy))

\* C10: a write_* call changes neither the idle-role set nor any group's
\* policies.
C10_InputsUnchanged ==
    [][outcome' # outcome => UNCHANGED <<inputs, loaded>>]_vars

\* A web report whose list is sorted while the group's dict still holds the
\* policies in the order of the tree.
C10_Witness ==
    /\ Resolved
    /\ last_write = "web"
    /\ idle_user_roles = Roles
    /\ Keys(Get(web_policies_.items, "WEB_ACL")) = <<"p2", "p1">>
    /\ \E role \in idle_user_roles : ListOf(role, "WEB_ACL") = <<"p1", "p2">>

====
